---- MODULE Spec2Model ----
(***************************************************************************)
(* Model of the autotask_fileConvert plugin: the ICNS container packer     *)
(* (icon.py: pack_icns) and the three node operations                      *)
(* (svg.py: SVGToImageNode, icon.py: ImageToIconNode,                      *)
(* pdf.py: PDFTextExtractorNode).                                          *)
(*                                                                         *)
(* Byte strings are sequences of integers 0..255.  A Python dict is a      *)
(* sequence of <<key, value>> pairs with distinct keys, in insertion       *)
(* order.  The calls into Pillow, CairoSVG, PyPDF2 and the file system     *)
(* succeed or raise nondeterministically.                                  *)
(***************************************************************************)
EXTENDS Integers, Sequences, FiniteSets, TLC

VARIABLES
    pc,          \* position of the running invocation
    op,          \* "none" | "svg" | "icon" | "pdf"
    req,         \* node_inputs of the running invocation, and the files it names
    fmt,         \* the local variable `format` of execute, or Unbound
    exc,         \* the exception in flight: [type, wrap]
    idx,         \* loop position (index into sizes / page number)
    outFiles,    \* output_files, or text_array for the PDF node
    rasterArgs,  \* arguments of cairosvg.svg2png when it was called, else <<>>
    written,     \* files created or modified by the running invocation
    log,         \* what the running invocation sent to workflow_logger
    result,      \* how the invocation ended
    maxPixels,   \* Image.MAX_IMAGE_PIXELS (process-wide)
    savedMax,    \* svg_to_image's local original_max_pixels
    limit0,      \* Image.MAX_IMAGE_PIXELS before the first call
    madeDirs,    \* directories os.makedirs ensured in the running invocation
    packIn,      \* argument of a direct pack_icns call
    packOut,     \* its returned bytes
    packPc       \* "ready" | "done" | "off"

nodeVars == <<pc, op, req, fmt, exc, idx, outFiles, rasterArgs, written, log,
              result, maxPixels, savedMax, limit0, madeDirs>>
packVars == <<packIn, packOut, packPc>>
vars == <<pc, op, req, fmt, exc, idx, outFiles, rasterArgs, written, log,
          result, maxPixels, savedMax, limit0, madeDirs, packIn, packOut, packPc>>

(***************************************************************************)
(* Bounds of the model                                                     *)
(***************************************************************************)
MaxEntries == 2      \* entries of a mapping given to pack_icns
MaxPayloadLen == 2   \* bytes of one payload
MaxPages == 2        \* pages of a PDF document
MaxDim == 1          \* largest width / height asked of SVG->Image

(***************************************************************************)
(* icon.py: pack_icns                                                      *)
(***************************************************************************)
Magic == <<105, 99, 110, 115>>                       \* b'icns'

icon_types ==
    (16 :> <<105, 99, 112, 52>>) @@                  \* b'icp4'
    (32 :> <<105, 99, 112, 53>>) @@                  \* b'icp5'
    (64 :> <<105, 99, 112, 54>>) @@                  \* b'icp6'
    (128 :> <<105, 99, 48, 55>>) @@                  \* b'ic07'
    (256 :> <<105, 99, 48, 56>>) @@                  \* b'ic08'
    (512 :> <<105, 99, 48, 57>>) @@                  \* b'ic09'
    (1024 :> <<105, 99, 49, 48>>)                    \* b'ic10'

\* variant: an unknown size falls back to the first tag instead of None
IconTypesGet_DefaultTag(size) ==
    IF size \in DOMAIN icon_types THEN icon_types[size] ELSE icon_types[16]

\* icon_types.get(size): the tag, or None (here <<>>, falsy like None)
IconTypesGet(size) ==
    IF size \in DOMAIN icon_types THEN icon_types[size] ELSE <<>>

\* struct.pack('!I', n): four bytes, most significant first
StructPackU32(n) ==
    << (n \div 16777216) % 256, (n \div 65536) % 256, (n \div 256) % 256, n % 256 >>

\* variant: the length field counts the payload only
SizeData_PayloadOnly(image_data) == Len(image_data)

\* size_data = len(image_data) + 8
SizeData(image_data) == Len(image_data) + 8

\* total_size = len(data) + 8
TotalSize(data) == Len(data) + 8

\* the loop over images.items(): data after all entries
RECURSIVE PackData(_)
PackData(images) ==
    IF images = <<>> THEN <<>>
    ELSE LET size == Head(images)[1]
             image_data == Head(images)[2]
             icon_type == IconTypesGet(size)
             chunk == IF icon_type # <<>>
                      THEN icon_type \o StructPackU32(SizeData(image_data)) \o image_data
                      ELSE <<>>
         IN  chunk \o PackData(Tail(images))

pack_icns(images) ==
    LET data == PackData(images)
    IN  Magic \o StructPackU32(TotalSize(data)) \o data

(***************************************************************************)
(* Reading an ICNS byte string back (used to state the claims)             *)
(***************************************************************************)
UnpackU32(b) == b[1] * 16777216 + b[2] * 65536 + b[3] * 256 + b[4]

BadChunk == [tag |-> <<>>, length |-> 0 - 1, payload |-> <<>>]

\* the chunks of a chunk area, delimited by their own length fields
RECURSIVE ParseChunks(_)
ParseChunks(b) ==
    IF b = <<>> THEN <<>>
    ELSE IF Len(b) < 8 THEN <<BadChunk>>
    ELSE LET L == UnpackU32(SubSeq(b, 5, 8))
         IN  IF L < 8 \/ L > Len(b) THEN <<BadChunk>>
             ELSE <<[tag |-> SubSeq(b, 1, 4), length |-> L, payload |-> SubSeq(b, 9, L)]>>
                  \o ParseChunks(SubSeq(b, L + 1, Len(b)))

RECURSIVE SumLengths(_)
SumLengths(chunks) ==
    IF chunks = <<>> THEN 0 ELSE Head(chunks).length + SumLengths(Tail(chunks))

\* the tag table as the specification states it
TableSizes == {16, 32, 64, 128, 256, 512, 1024}

TableTag(size) ==
    CASE size = 16 -> <<105, 99, 112, 52>>
      [] size = 32 -> <<105, 99, 112, 53>>
      [] size = 64 -> <<105, 99, 112, 54>>
      [] size = 128 -> <<105, 99, 48, 55>>
      [] size = 256 -> <<105, 99, 48, 56>>
      [] size = 512 -> <<105, 99, 48, 57>>
      [] size = 1024 -> <<105, 99, 49, 48>>

InTable(e) == e[1] \in TableSizes

\* the entries of a mapping whose size is in the table, in iteration order
KnownEntries(images) == SelectSeq(images, InTable)

HeaderTotal(out) == UnpackU32(SubSeq(out, 5, 8))

ChunkArea(out) == SubSeq(out, 9, Len(out))

(***************************************************************************)
(* Values shared by the three node operations                              *)
(***************************************************************************)
Unbound == "<unbound>"      \* a local variable not assigned yet
None == "None"              \* Python's None
NoExc == [type |-> "none", wrap |-> <<>>]
NoResult == [kind |-> "none", value |-> <<>>, msg |-> <<>>, cause |-> "none"]
IdleReq == [fault |-> "none"]

InputDir == "in"
OutputDirs == {"out", "in"}

\* os.path.dirname(path)
Dirname(path) == path.dir

\* os.path.splitext(os.path.basename(path))[0]
BaseName(path) == path.base

\* a file on disk: os.path.join(dir, name) and what it holds
File(dir, base, size, ext, state, bytes) ==
    [dir |-> dir, base |-> base, size |-> size, ext |-> ext, state |-> state,
     bytes |-> bytes]

SamePath(f, g) ==
    f.dir = g.dir /\ f.base = g.base /\ f.size = g.size /\ f.ext = g.ext

\* creating or overwriting the file at f's path
WriteFile(files, f) == {g \in files : ~SamePath(f, g)} \cup {f}

\* the output path of a written file, as the operations return it
PathOf(f) == [dir |-> f.dir, base |-> f.base, size |-> f.size, ext |-> f.ext]

LogEntry(level, msg) == [level |-> level, msg |-> msg]

\* entering execute with node_inputs r: fresh locals, an empty record of
\* what this invocation wrote and logged
StartCall(o, r, first) ==
    /\ pc = "idle"
    /\ op' = o
    /\ req' = r
    /\ pc' = first
    /\ fmt' = Unbound
    /\ exc' = NoExc
    /\ idx' = 0
    /\ outFiles' = <<>>
    /\ rasterArgs' = <<>>
    /\ written' = {}
    /\ log' = <<>>
    /\ result' = NoResult
    /\ savedMax' = Unbound
    /\ madeDirs' = {}
    /\ UNCHANGED <<maxPixels, limit0, packIn, packOut, packPc>>

(***************************************************************************)
(* svg.py: SVGToImageNode.execute and svg_to_image                         *)
(***************************************************************************)
scale_factor == 8

SvgFaults == {"none", "miss_svg_file", "miss_width", "bad_width", "miss_height",
              "bad_height", "miss_output_dir", "bad_format"}

SvgRequests ==
    [fault : SvgFaults, exists : BOOLEAN, width : (0 - 1)..MaxDim,
     height : (0 - 1)..MaxDim, output_dir : OutputDirs,
     format : {"PNG", "JPEG", "png", "ABSENT"},
     svg_file : {[dir |-> InputDir, base |-> "logo", ext |-> ".svg"]}]

\* what reading the five inputs raises: node_inputs[k] on a missing key,
\* int() on a value that is no integer, .upper() on a value that is no string
SvgFaultType(fault) ==
    CASE fault \in {"miss_svg_file", "miss_width", "miss_height", "miss_output_dir"}
           -> "KeyError"
      [] fault \in {"bad_width", "bad_height"} -> "ValueError"
      [] fault = "bad_format" -> "AttributeError"

\* str.upper() on the format strings of the model
Upper(s) == IF s = "png" THEN "PNG" ELSE s

\* node_inputs.get("format", "PNG").upper()
SvgFormat(r) == IF r.format = "ABSENT" THEN "PNG" ELSE Upper(r.format)

\* ext = ".png" if format == "PNG" else ".jpg"
SvgExt(f) == IF f = "PNG" THEN ".png" ELSE ".jpg"

\* output_path = os.path.join(output_dir, f"{base_name}{ext}")
SvgOutputFile(r, f, state) ==
    File(r.output_dir, BaseName(r.svg_file), 0, SvgExt(f), state, <<>>)

\* debug_path = os.path.join(os.path.dirname(svg_path), "debug_output.png")
SvgDebugFile(r, state) ==
    File(Dirname(r.svg_file), "debug_output", 0, ".png", state, <<>>)

\* variant: the limit is restored on the normal path only
LimitAfterTry_NoFinally(saved, raised) == IF raised THEN None ELSE saved

\* the finally clause of svg_to_image: runs whether or not the body raised
LimitAfterTry(saved, raised) == saved

SvgInvoke == \E r \in SvgRequests : StartCall("svg", r, "svg_inputs")

SvgReadInputs ==
    /\ pc = "svg_inputs"
    /\ \/ /\ req.fault # "none"
          /\ exc' = [type |-> SvgFaultType(req.fault), wrap |-> <<>>]
          /\ pc' = "svg_except"
          /\ UNCHANGED <<fmt, log>>
       \/ /\ req.fault = "none"
          /\ fmt' = SvgFormat(req)
          /\ log' = Append(log, LogEntry("info", <<"Converting SVG file", SvgFormat(req)>>))
          /\ pc' = "svg_makedirs"
          /\ exc' = exc
    /\ UNCHANGED <<op, req, idx, outFiles, rasterArgs, written, result, maxPixels,
                   savedMax, limit0, madeDirs, packIn, packOut, packPc>>

\* os.makedirs(output_dir, exist_ok=True)
SvgMakedirs ==
    /\ pc = "svg_makedirs"
    /\ \/ /\ madeDirs' = madeDirs \cup {req.output_dir}
          /\ pc' = "svg_open"
          /\ exc' = exc
       \/ /\ madeDirs' = madeDirs
          /\ exc' = [type |-> "OSError", wrap |-> <<>>]
          /\ pc' = "svg_except"
    /\ UNCHANGED <<op, req, fmt, idx, outFiles, rasterArgs, written, log, result,
                   maxPixels, savedMax, limit0, packIn, packOut, packPc>>

SvgOpen ==
    /\ pc = "svg_open"
    /\ \/ /\ ~req.exists
          /\ exc' = [type |-> "FileNotFoundError", wrap |-> <<"Failed to convert SVG">>]
          /\ pc' = "svg_except"
       \/ /\ req.exists
          /\ pc' = "svg_render"
          /\ exc' = exc
    /\ UNCHANGED <<op, req, fmt, idx, outFiles, rasterArgs, written, log, result,
                   maxPixels, savedMax, limit0, madeDirs, packIn, packOut, packPc>>

SvgRender ==
    /\ pc = "svg_render"
    /\ rasterArgs' = <<req.width * scale_factor, req.height * scale_factor>>
    /\ \/ /\ pc' = "svg_lift"
          /\ exc' = exc
       \/ /\ exc' = [type |-> "RenderError", wrap |-> <<"Failed to convert SVG">>]
          /\ pc' = "svg_except"
    /\ UNCHANGED <<op, req, fmt, idx, outFiles, written, log, result,
                   maxPixels, savedMax, limit0, madeDirs, packIn, packOut, packPc>>

SvgLift ==
    /\ pc = "svg_lift"
    /\ savedMax' = maxPixels
    /\ maxPixels' = None
    /\ pc' = "svg_decode"
    /\ UNCHANGED <<op, req, fmt, exc, idx, outFiles, rasterArgs, written, log, result,
                   limit0, madeDirs, packIn, packOut, packPc>>

SvgDecode ==
    /\ pc = "svg_decode"
    /\ \/ /\ pc' = "svg_resize"
          /\ exc' = exc
       \/ /\ exc' = [type |-> "UnidentifiedImageError", wrap |-> <<>>]
          /\ pc' = "svg_finally"
    /\ UNCHANGED <<op, req, fmt, idx, outFiles, rasterArgs, written, log, result,
                   maxPixels, savedMax, limit0, madeDirs, packIn, packOut, packPc>>

\* img.resize((width, height), LANCZOS): the rendered bitmap never has the
\* requested size already (it is rendered scale_factor times larger), and
\* Pillow rejects a target size below 1x1 with ValueError
SvgResize ==
    /\ pc = "svg_resize"
    /\ \/ /\ req.width >= 1
          /\ req.height >= 1
          /\ pc' = "svg_debug"
          /\ exc' = exc
       \/ /\ exc' = [type |-> "ValueError", wrap |-> <<>>]
          /\ pc' = "svg_finally"
    /\ UNCHANGED <<op, req, fmt, idx, outFiles, rasterArgs, written, log, result,
                   maxPixels, savedMax, limit0, madeDirs, packIn, packOut, packPc>>

SvgDebugSave ==
    /\ pc = "svg_debug"
    /\ pc' = "svg_finally"
    /\ \/ /\ written' = WriteFile(written, SvgDebugFile(req, "complete"))
          /\ exc' = exc
       \/ /\ written' = WriteFile(written, SvgDebugFile(req, "partial"))
          /\ exc' = [type |-> "OSError", wrap |-> <<>>]
       \/ /\ written' = written
          /\ exc' = [type |-> "OSError", wrap |-> <<>>]
    /\ UNCHANGED <<op, req, fmt, idx, outFiles, rasterArgs, log, result,
                   maxPixels, savedMax, limit0, madeDirs, packIn, packOut, packPc>>

SvgFinally ==
    /\ pc = "svg_finally"
    /\ maxPixels' = LimitAfterTry(savedMax, exc # NoExc)
    /\ \/ /\ exc = NoExc
          /\ pc' = "svg_save"
          /\ exc' = exc
       \/ /\ exc # NoExc
          /\ exc' = [exc EXCEPT !.wrap = <<"Failed to convert SVG">>]
          /\ pc' = "svg_except"
    /\ UNCHANGED <<op, req, fmt, idx, outFiles, rasterArgs, written, log, result,
                   savedMax, limit0, madeDirs, packIn, packOut, packPc>>

SvgSave ==
    /\ pc = "svg_save"
    /\ \/ /\ written' = WriteFile(written, SvgOutputFile(req, fmt, "complete"))
          /\ pc' = "svg_return"
          /\ exc' = exc
       \/ /\ written' = WriteFile(written, SvgOutputFile(req, fmt, "partial"))
          /\ exc' = [type |-> "OSError", wrap |-> <<>>]
          /\ pc' = "svg_except"
       \/ /\ written' = written
          /\ exc' = [type |-> "OSError", wrap |-> <<>>]
          /\ pc' = "svg_except"
    /\ UNCHANGED <<op, req, fmt, idx, outFiles, rasterArgs, log, result,
                   maxPixels, savedMax, limit0, madeDirs, packIn, packOut, packPc>>

SvgReturn ==
    /\ pc = "svg_return"
    /\ log' = Append(log, LogEntry("info", <<"Successfully converted SVG to", fmt>>))
    /\ result' = [kind |-> "return",
                  value |-> <<PathOf(SvgOutputFile(req, fmt, "complete"))>>,
                  msg |-> <<>>, cause |-> "none"]
    /\ pc' = "done"
    /\ UNCHANGED <<op, req, fmt, exc, idx, outFiles, rasterArgs, written,
                   maxPixels, savedMax, limit0, madeDirs, packIn, packOut, packPc>>

\* except Exception as e: error_msg is built from `format`, which is a local
\* of execute and is unbound when the failure came before its assignment
SvgExcept ==
    /\ pc = "svg_except"
    /\ \/ /\ fmt = Unbound
          /\ result' = [kind |-> "raise", value |-> <<>>,
                        msg |-> <<"local variable 'format' referenced before assignment">>,
                        cause |-> "UnboundLocalError"]
          /\ log' = log
       \/ /\ fmt # Unbound
          /\ LET error_msg == <<"SVG to", fmt, "conversion failed">> \o exc.wrap
                              \o <<exc.type>>
             IN  /\ log' = Append(log, LogEntry("error", error_msg))
                 /\ result' = [kind |-> "raise", value |-> <<>>, msg |-> error_msg,
                               cause |-> exc.type]
    /\ pc' = "done"
    /\ UNCHANGED <<op, req, fmt, exc, idx, outFiles, rasterArgs, written,
                   maxPixels, savedMax, limit0, madeDirs, packIn, packOut, packPc>>

SvgNext ==
    \/ SvgInvoke \/ SvgReadInputs \/ SvgMakedirs \/ SvgOpen \/ SvgRender \/ SvgLift
    \/ SvgDecode \/ SvgResize \/ SvgDebugSave \/ SvgFinally \/ SvgSave \/ SvgReturn
    \/ SvgExcept

(***************************************************************************)
(* icon.py: ImageToIconNode.execute, create_ico, create_icns               *)
(***************************************************************************)
\* variant: create_icns iterating the ICO size list
IcnsSizes_AsIco == <<16, 32, 48, 64, 128, 256>>

\* create_icns: sizes = [16, 32, 64, 128, 256, 512, 1024]
IcnsSizes == <<16, 32, 64, 128, 256, 512, 1024>>

\* create_ico: sizes = [16, 32, 48, 64, 128, 256]
IcoSizes == <<16, 32, 48, 64, 128, 256>>

\* if format == "ICO": create_ico ... else: create_icns
IconSizes(f) == IF f = "ICO" THEN IcoSizes ELSE IcnsSizes

IconExt(f) == IF f = "ICO" THEN ".ico" ELSE ".icns"

CreateName(f) == IF f = "ICO" THEN "Failed to create ICO" ELSE "Failed to create ICNS"

\* variant: the loop stops one size early
LoopDone_OffByOne(i, sizes) == i + 1 >= Len(sizes)

\* `for size in sizes` is exhausted once i sizes were handled
LoopDone(i, sizes) == i >= Len(sizes)

\* PNG encodings of a resized bitmap (bytes the image library decides)
PngSamples == {<<137>>, <<137, 80>>}

IconFaults == {"none", "miss_image_file", "miss_output_dir", "miss_format"}

IconRequests ==
    [fault : IconFaults, exists : BOOLEAN, output_dir : OutputDirs,
     format : {"ICO", "ICNS"},
     image_file : {[dir |-> InputDir, base |-> "logo", ext |-> ".png"]}]

\* output_path = os.path.join(output_dir, f"{base_name}_{size}.<ext>")
IconFile(r, f, size, state, bytes) ==
    File(r.output_dir, BaseName(r.image_file), size, IconExt(f), state, bytes)

IconInvoke == \E r \in IconRequests : StartCall("icon", r, "icon_inputs")

IconReadInputs ==
    /\ pc = "icon_inputs"
    /\ \/ /\ req.fault # "none"
          /\ exc' = [type |-> "KeyError", wrap |-> <<>>]
          /\ pc' = "icon_except"
          /\ UNCHANGED <<fmt, log>>
       \/ /\ req.fault = "none"
          /\ fmt' = req.format
          /\ log' = Append(log, LogEntry("info", <<"Converting image to", req.format>>))
          /\ pc' = "icon_exists"
          /\ exc' = exc
    /\ UNCHANGED <<op, req, idx, outFiles, rasterArgs, written, result, maxPixels,
                   savedMax, limit0, madeDirs, packIn, packOut, packPc>>

IconCheckExists ==
    /\ pc = "icon_exists"
    /\ \/ /\ ~req.exists
          /\ exc' = [type |-> "InputFileNotFound", wrap |-> <<>>]
          /\ pc' = "icon_except"
       \/ /\ req.exists
          /\ pc' = "icon_makedirs"
          /\ exc' = exc
    /\ UNCHANGED <<op, req, fmt, idx, outFiles, rasterArgs, written, log, result,
                   maxPixels, savedMax, limit0, madeDirs, packIn, packOut, packPc>>

\* os.makedirs(output_dir, exist_ok=True)
IconMakedirs ==
    /\ pc = "icon_makedirs"
    /\ \/ /\ madeDirs' = madeDirs \cup {req.output_dir}
          /\ pc' = "icon_open"
          /\ exc' = exc
       \/ /\ madeDirs' = madeDirs
          /\ exc' = [type |-> "OSError", wrap |-> <<>>]
          /\ pc' = "icon_except"
    /\ UNCHANGED <<op, req, fmt, idx, outFiles, rasterArgs, written, log, result,
                   maxPixels, savedMax, limit0, packIn, packOut, packPc>>

\* img = Image.open(image_path); img.convert('RGBA'); output_files = []
IconOpen ==
    /\ pc = "icon_open"
    /\ \/ /\ pc' = "icon_loop"
          /\ exc' = exc
       \/ /\ exc' = [type |-> "UnidentifiedImageError", wrap |-> <<CreateName(fmt)>>]
          /\ pc' = "icon_except"
    /\ idx' = 0
    /\ outFiles' = <<>>
    /\ UNCHANGED <<op, req, fmt, rasterArgs, written, log, result,
                   maxPixels, savedMax, limit0, madeDirs, packIn, packOut, packPc>>

\* one iteration of create_ico's loop
IcoStep ==
    /\ pc = "icon_loop"
    /\ fmt = "ICO"
    /\ ~LoopDone(idx, IcoSizes)
    /\ LET size == IcoSizes[idx + 1]
       IN  \/ /\ written' = WriteFile(written, IconFile(req, fmt, size, "complete", <<>>))
              /\ outFiles' = Append(outFiles,
                                    PathOf(IconFile(req, fmt, size, "complete", <<>>)))
              /\ pc' = pc
              /\ exc' = exc
           \/ /\ exc' = [type |-> "ValueError", wrap |-> <<CreateName(fmt)>>]
              /\ pc' = "icon_except"
              /\ UNCHANGED <<written, outFiles>>
           \/ /\ exc' = [type |-> "OSError", wrap |-> <<CreateName(fmt)>>]
              /\ pc' = "icon_except"
              /\ written' \in {written,
                               WriteFile(written, IconFile(req, fmt, size, "partial", <<>>))}
              /\ outFiles' = outFiles
    /\ idx' = idx + 1
    /\ UNCHANGED <<op, req, fmt, rasterArgs, log, result,
                   maxPixels, savedMax, limit0, madeDirs, packIn, packOut, packPc>>

\* one iteration of create_icns's loop: resize, PNG-encode, pack_icns, write
IcnsStep ==
    /\ pc = "icon_loop"
    /\ fmt # "ICO"
    /\ ~LoopDone(idx, IcnsSizes)
    /\ LET size == IcnsSizes[idx + 1]
       IN  \/ \E png_data \in PngSamples :
                LET icns_data == pack_icns(<< <<size, png_data>> >>)
                    f == IconFile(req, fmt, size, "complete", icns_data)
                IN  /\ written' = WriteFile(written, f)
                    /\ outFiles' = Append(outFiles, PathOf(f))
                    /\ pc' = pc
                    /\ exc' = exc
           \/ /\ exc' = [type |-> "ValueError", wrap |-> <<CreateName(fmt)>>]
              /\ pc' = "icon_except"
              /\ UNCHANGED <<written, outFiles>>
           \/ /\ exc' = [type |-> "OSError", wrap |-> <<CreateName(fmt)>>]
              /\ pc' = "icon_except"
              /\ written' \in {written,
                               WriteFile(written, IconFile(req, fmt, size, "partial", <<>>))}
              /\ outFiles' = outFiles
    /\ idx' = idx + 1
    /\ UNCHANGED <<op, req, fmt, rasterArgs, log, result,
                   maxPixels, savedMax, limit0, madeDirs, packIn, packOut, packPc>>

\* return output_files, then the two info lines and execute's return
IconReturn ==
    /\ pc = "icon_loop"
    /\ LoopDone(idx, IconSizes(fmt))
    /\ log' = log \o << LogEntry("info", <<"Successfully created files", fmt>>),
                        LogEntry("info", <<"Output files">>) >>
    /\ result' = [kind |-> "return", value |-> outFiles, msg |-> <<>>, cause |-> "none"]
    /\ pc' = "done"
    /\ UNCHANGED <<op, req, fmt, exc, idx, outFiles, rasterArgs, written,
                   maxPixels, savedMax, limit0, madeDirs, packIn, packOut, packPc>>

IconExcept ==
    /\ pc = "icon_except"
    /\ \/ /\ fmt = Unbound
          /\ result' = [kind |-> "raise", value |-> <<>>,
                        msg |-> <<"local variable 'format' referenced before assignment">>,
                        cause |-> "UnboundLocalError"]
          /\ log' = log
       \/ /\ fmt # Unbound
          /\ LET error_msg == <<"Image to", fmt, "conversion failed">> \o exc.wrap
                              \o <<exc.type>>
             IN  /\ log' = Append(log, LogEntry("error", error_msg))
                 /\ result' = [kind |-> "raise", value |-> <<>>, msg |-> error_msg,
                               cause |-> exc.type]
    /\ pc' = "done"
    /\ UNCHANGED <<op, req, fmt, exc, idx, outFiles, rasterArgs, written,
                   maxPixels, savedMax, limit0, madeDirs, packIn, packOut, packPc>>

IconNext ==
    \/ IconInvoke \/ IconReadInputs \/ IconCheckExists \/ IconMakedirs \/ IconOpen
    \/ IcoStep \/ IcnsStep \/ IconReturn \/ IconExcept

(***************************************************************************)
(* pdf.py: PDFTextExtractorNode.execute                                    *)
(***************************************************************************)
Texts == {"", "a", "b"}

\* documents: the text PyPDF2 extracts from each page, in document order
Docs == UNION {[1..n -> Texts] : n \in 0..MaxPages}

PdfRequests ==
    [fault : {"none", "miss_pdf_file"}, exists : BOOLEAN, pages : Docs,
     pdf_file : {[dir |-> InputDir, base |-> "doc", ext |-> ".pdf"]}]

\* variant: pages without text are left out
ExtractAppend_SkipEmpty(text_array, text) ==
    IF text = "" THEN text_array ELSE Append(text_array, text)

\* text_array.append(text)
ExtractAppend(text_array, text) == Append(text_array, text)

\* variant: a failure is swallowed and an empty list returned
PdfFailureResult_EmptyList(error_msg, cause) ==
    [kind |-> "return", value |-> <<>>, msg |-> <<>>, cause |-> "none"]

\* return {"success": False, "error_message": error_msg}
PdfFailureResult(error_msg, cause) ==
    [kind |-> "failure_dict", value |-> <<>>, msg |-> error_msg, cause |-> cause]

PdfInvoke == \E r \in PdfRequests : StartCall("pdf", r, "pdf_inputs")

PdfReadInput ==
    /\ pc = "pdf_inputs"
    /\ \/ /\ req.fault # "none"
          /\ exc' = [type |-> "KeyError", wrap |-> <<>>]
          /\ pc' = "pdf_except"
          /\ log' = log
       \/ /\ req.fault = "none"
          /\ log' = Append(log, LogEntry("info", <<"Start processing PDF file">>))
          /\ pc' = "pdf_open"
          /\ exc' = exc
    /\ UNCHANGED <<op, req, fmt, idx, outFiles, rasterArgs, written, result, maxPixels,
                   savedMax, limit0, madeDirs, packIn, packOut, packPc>>

\* reader = PdfReader(pdf_path); text_array = []
PdfOpen ==
    /\ pc = "pdf_open"
    /\ \/ /\ ~req.exists
          /\ exc' = [type |-> "FileNotFoundError", wrap |-> <<>>]
          /\ pc' = "pdf_except"
       \/ /\ req.exists
          /\ exc' = [type |-> "PdfReadError", wrap |-> <<>>]
          /\ pc' = "pdf_except"
       \/ /\ req.exists
          /\ pc' = "pdf_loop"
          /\ exc' = exc
    /\ idx' = 0
    /\ outFiles' = <<>>
    /\ UNCHANGED <<op, req, fmt, rasterArgs, written, log, result,
                   maxPixels, savedMax, limit0, madeDirs, packIn, packOut, packPc>>

\* one iteration of `for page_num in range(len(reader.pages))`
PdfPage ==
    /\ pc = "pdf_loop"
    /\ idx < Len(req.pages)
    /\ log' = Append(log, LogEntry("debug", <<"Processing page">>))
    /\ \/ /\ outFiles' = ExtractAppend(outFiles, req.pages[idx + 1])
          /\ idx' = idx + 1
          /\ pc' = pc
          /\ exc' = exc
       \/ /\ exc' = [type |-> "ExtractError", wrap |-> <<>>]
          /\ pc' = "pdf_except"
          /\ UNCHANGED <<outFiles, idx>>
    /\ UNCHANGED <<op, req, fmt, rasterArgs, written, result,
                   maxPixels, savedMax, limit0, madeDirs, packIn, packOut, packPc>>

PdfReturn ==
    /\ pc = "pdf_loop"
    /\ idx >= Len(req.pages)
    /\ log' = Append(log, LogEntry("info", <<"Successfully extracted text">>))
    /\ result' = [kind |-> "return", value |-> outFiles, msg |-> <<>>, cause |-> "none"]
    /\ pc' = "done"
    /\ UNCHANGED <<op, req, fmt, exc, idx, outFiles, rasterArgs, written,
                   maxPixels, savedMax, limit0, madeDirs, packIn, packOut, packPc>>

PdfExcept ==
    /\ pc = "pdf_except"
    /\ LET error_msg == <<"PDF text extraction failed">> \o exc.wrap \o <<exc.type>>
       IN  /\ log' = Append(log, LogEntry("error", error_msg))
           /\ result' = PdfFailureResult(error_msg, exc.type)
    /\ pc' = "done"
    /\ UNCHANGED <<op, req, fmt, exc, idx, outFiles, rasterArgs, written,
                   maxPixels, savedMax, limit0, madeDirs, packIn, packOut, packPc>>

PdfNext == PdfInvoke \/ PdfReadInput \/ PdfOpen \/ PdfPage \/ PdfReturn \/ PdfExcept

(***************************************************************************)
(* Specifications                                                          *)
(***************************************************************************)
Init ==
    /\ pc = "idle"
    /\ op = "none"
    /\ req = IdleReq
    /\ fmt = Unbound
    /\ exc = NoExc
    /\ idx = 0
    /\ outFiles = <<>>
    /\ rasterArgs = <<>>
    /\ written = {}
    /\ log = <<>>
    /\ result = NoResult
    /\ maxPixels \in {"PIL_DEFAULT", None}
    /\ limit0 = maxPixels
    /\ savedMax = Unbound
    /\ madeDirs = {}
    /\ packIn = <<>>
    /\ packOut = <<>>
    /\ packPc = "off"

\* execute has returned or raised: its frame is gone and the next invocation
\* may start; only the process-wide Image.MAX_IMAGE_PIXELS lives on
Finish ==
    /\ pc = "done"
    /\ pc' = "idle"
    /\ op' = "none"
    /\ req' = IdleReq
    /\ fmt' = Unbound
    /\ exc' = NoExc
    /\ idx' = 0
    /\ outFiles' = <<>>
    /\ rasterArgs' = <<>>
    /\ written' = {}
    /\ log' = <<>>
    /\ result' = NoResult
    /\ savedMax' = Unbound
    /\ madeDirs' = {}
    /\ UNCHANGED <<maxPixels, limit0, packIn, packOut, packPc>>

Next == SvgNext \/ IconNext \/ PdfNext \/ Finish

Spec == Init /\ [][Next]_vars

\* direct calls of pack_icns: the mappings it is applied to
PackSizes == {16, 64, 1024, 48}
PayloadBytes == {0, 137}
Payloads == UNION {[1..n -> PayloadBytes] : n \in 0..MaxPayloadLen}
Mappings ==
    {m \in UNION {[1..n -> PackSizes \X Payloads] : n \in 0..MaxEntries} :
        \A i, j \in 1..Len(m) : i # j => m[i][1] # m[j][1]}

InitPack ==
    /\ pc = "idle"
    /\ op = "none"
    /\ req = IdleReq
    /\ fmt = Unbound
    /\ exc = NoExc
    /\ idx = 0
    /\ outFiles = <<>>
    /\ rasterArgs = <<>>
    /\ written = {}
    /\ log = <<>>
    /\ result = NoResult
    /\ maxPixels = "PIL_DEFAULT"
    /\ limit0 = maxPixels
    /\ savedMax = Unbound
    /\ madeDirs = {}
    /\ packIn \in Mappings
    /\ packOut = <<>>
    /\ packPc = "ready"

PackCall ==
    /\ packPc = "ready"
    /\ packOut' = pack_icns(packIn)
    /\ packPc' = "done"
    /\ UNCHANGED <<nodeVars, packIn>>

NextPack == PackCall

SpecPack == InitPack /\ [][NextPack]_vars

(***************************************************************************)
(* Properties of pack_icns (checked under SpecPack)                        *)
(***************************************************************************)

\* C1: in the bytes pack_icns returns, the header's big-endian totalLength
\* equals the byte length of the output and equals 8 plus the sum of the
\* chunks' length fields, and the length field of each emitted chunk is the
\* length of the payload it was given plus 8.
C1_PackLengths ==
    packPc = "done" =>
        LET chunks == ParseChunks(ChunkArea(packOut))
            known == KnownEntries(packIn)
        IN  /\ HeaderTotal(packOut) = Len(packOut)
            /\ HeaderTotal(packOut) = 8 + SumLengths(chunks)
            /\ Len(chunks) = Len(known)
            /\ \A i \in 1..Len(chunks) : chunks[i].length = Len(known[i][2]) + 8

\* a two-entry mapping, one size in the table with a payload, one outside it
C1_Witness ==
    /\ packPc = "done"
    /\ Len(packIn) = 2
    /\ packIn[1][1] = 48
    /\ packIn[2][1] = 1024
    /\ Len(packIn[2][2]) = 2
    /\ Len(packOut) = 18

\* C2: the chunks pack_icns emits are exactly the entries whose size is in the
\* tag table, in iteration order, each with its table tag and its unmodified
\* payload; a mapping with only unknown sizes gives the bare 8-byte header
\* with totalLength 8.
C2_PackChunks ==
    packPc = "done" =>
        LET chunks == ParseChunks(ChunkArea(packOut))
            known == KnownEntries(packIn)
        IN  /\ SubSeq(packOut, 1, 4) = Magic
            /\ Len(chunks) = Len(known)
            /\ \A i \in 1..Len(chunks) :
                   /\ chunks[i].tag = TableTag(known[i][1])
                   /\ chunks[i].payload = known[i][2]
            /\ known = <<>> => packOut = Magic \o <<0, 0, 0, 8>>

\* two table sizes given in descending order, with different payloads
C2_Witness ==
    /\ packPc = "done"
    /\ Len(packIn) = 2
    /\ packIn[1][1] = 1024
    /\ packIn[2][1] = 16
    /\ packIn[1][2] = <<137>>
    /\ packIn[2][2] = <<0, 137>>
    /\ ParseChunks(ChunkArea(packOut))[1].tag = TableTag(1024)

(***************************************************************************)
(* Properties of the node operations (checked under Spec)                  *)
(***************************************************************************)
\* the size sets as the specification states them
ExpectedIcoSizes == <<16, 32, 48, 64, 128, 256>>
ExpectedIcnsSizes == <<16, 32, 64, 128, 256, 512, 1024>>
ExpectedSizes(f) == IF f = "ICO" THEN ExpectedIcoSizes ELSE ExpectedIcnsSizes
ExpectedExt(f) == IF f = "ICO" THEN ".ico" ELSE ".icns"

\* the error taxonomy of the specification, by underlying cause
ErrorClass(cause) ==
    CASE cause \in {"FileNotFoundError", "InputFileNotFound"} -> "InputNotFound"
      [] cause \in {"KeyError", "ValueError", "AttributeError"} -> "InvalidInput"
      [] cause \in {"RenderError"} -> "RenderError"
      [] cause \in {"PdfReadError", "ExtractError", "UnidentifiedImageError"} -> "ParseError"
      [] cause = "OSError" -> "IOError"
      [] OTHER -> "Unclassified"

IsFailure(r) == r.kind \in {"raise", "failure_dict"}

\* the invocation named an input path (the path field itself is present)
PathGiven == req.fault \notin {"miss_svg_file", "miss_image_file", "miss_pdf_file"}

\* C3: a successful Image->Icon returns one path per size of the format's
\* size set, ascending, named <baseName>_<size>.<ext> in output_dir (6 for
\* ICO, 7 for ICNS), and every ICNS file is the result of pack_icns on a
\* single-entry mapping for its size: one chunk, tagged for that size.
C3_IconPaths ==
    (op = "icon" /\ result.kind = "return") =>
        LET sizes == ExpectedSizes(req.format)
        IN  /\ Len(result.value) = Len(sizes)
            /\ Len(result.value) = (IF req.format = "ICO" THEN 6 ELSE 7)
            /\ \A i \in 1..Len(sizes) :
                   result.value[i] = [dir |-> req.output_dir, base |-> "logo",
                                      size |-> sizes[i], ext |-> ExpectedExt(req.format)]
            /\ req.format = "ICNS" =>
                   \A i \in 1..Len(sizes) :
                       \E f \in written :
                           /\ PathOf(f) = result.value[i]
                           /\ f.state = "complete"
                           /\ \E png \in PngSamples :
                                  f.bytes = pack_icns(<< <<sizes[i], png>> >>)
                           /\ Len(ParseChunks(ChunkArea(f.bytes))) = 1
                           /\ ParseChunks(ChunkArea(f.bytes))[1].tag = TableTag(sizes[i])

C3_Witness ==
    /\ op = "icon"
    /\ pc = "done"
    /\ result.kind = "return"
    /\ req.format = "ICNS"
    /\ Cardinality(written) = 7

\* C4: when Image->Icon fails at the k-th size, the result is a failure with
\* no path list, nothing was written for a later size, and the complete
\* files of sizes 1..k-1 are still on disk; a success result means every
\* size of the set was written.
C4_IconAbort ==
    op = "icon" =>
        LET sizes == ExpectedSizes(req.format)
        IN  /\ (exc # NoExc /\ pc \in {"icon_except", "done"}) =>
                   /\ result.kind # "return"
                   /\ pc = "done" => (result.kind = "raise" /\ result.value = <<>>)
                   /\ \A j \in 1..(idx - 1) :
                          \E f \in written : f.size = sizes[j] /\ f.state = "complete"
                   /\ \A f \in written : \E j \in 1..idx : f.size = sizes[j]
            /\ result.kind = "return" =>
                   \A j \in 1..Len(sizes) :
                       \E f \in written : f.size = sizes[j] /\ f.state = "complete"

\* a failure at the third size, with the first two files on disk
C4_Witness ==
    /\ op = "icon"
    /\ pc = "done"
    /\ result.kind = "raise"
    /\ idx = 3
    /\ Cardinality({f \in written : f.state = "complete"}) = 2

\* C5 as stated, for invocations whose input fields are all present and
\* well-formed: a missing input path gives an InputNotFound-class failure and
\* no output file, for each of the three operations.
C5_Original ==
    (pc = "done" /\ op \in {"svg", "icon", "pdf"} /\ req.fault = "none"
     /\ ~req.exists) =>
        /\ IsFailure(result)
        /\ ErrorClass(result.cause) = "InputNotFound"
        /\ written = {}

\* C5 amended: a missing input path always gives a failure and no output
\* file; the failure is InputNotFound-class when every input field is present
\* and well-formed and, for SVG->Image, the output directory could be created.
C5_MissingInput ==
    (pc = "done" /\ op \in {"svg", "icon", "pdf"} /\ PathGiven /\ ~req.exists) =>
        /\ IsFailure(result)
        /\ written = {}
        /\ (req.fault = "none" /\ (op = "svg" => req.output_dir \in madeDirs)) =>
               ErrorClass(result.cause) = "InputNotFound"

C5_Witness ==
    /\ pc = "done"
    /\ op = "svg"
    /\ req.fault = "none"
    /\ ~req.exists
    /\ req.output_dir \in madeDirs
    /\ result.kind = "raise"
    /\ result.cause = "FileNotFoundError"

OpLabel(o) ==
    CASE o = "svg" -> "SVG to"
      [] o = "icon" -> "Image to"
      [] o = "pdf" -> "PDF text extraction failed"

\* C6 as stated: every failure, at whatever step, is in the log at error level
\* with a message naming the operation and the underlying cause when it is
\* surfaced to the caller.
C6_Original ==
    (pc = "done" /\ IsFailure(result)) =>
        \E i \in 1..Len(log) :
            /\ log[i].level = "error"
            /\ log[i].msg[1] = OpLabel(op)
            /\ log[i].msg[Len(log[i].msg)] = exc.type

\* C7 as stated: every file an invocation creates or modifies is in outputDir
\* and is named <baseName>[_<size>].<ext>.
C7_Original ==
    \A f \in written :
        /\ f.dir = req.output_dir
        /\ \/ /\ op = "svg"
              /\ f.base = BaseName(req.svg_file)
              /\ f.size = 0
              /\ f.ext \in {".png", ".jpg"}
           \/ /\ op = "icon"
              /\ f.base = BaseName(req.image_file)
              /\ \E j \in 1..Len(ExpectedSizes(req.format)) :
                     f.size = ExpectedSizes(req.format)[j]
              /\ f.ext = ExpectedExt(req.format)

\* C8 as stated: SVG->Image with width <= 0 or height <= 0 never reaches the
\* rasterizer and writes nothing, and (when the SVG file exists and the output
\* directory could be created) ends in an InvalidInput-class failure.
C8_Original ==
    (op = "svg" /\ req.fault = "none" /\ (req.width <= 0 \/ req.height <= 0)) =>
        /\ rasterArgs = <<>>
        /\ written = {}
        /\ (pc = "done" /\ req.exists /\ req.output_dir \in madeDirs) =>
               (result.kind = "raise" /\ ErrorClass(result.cause) = "InvalidInput")

LimitWindow == {"svg_decode", "svg_resize", "svg_debug", "svg_finally"}

\* C10: outside the window between the save and the restore inside one
\* svg_to_image call, Image.MAX_IMAGE_PIXELS has the value it had before the
\* first call, whatever the calls so far returned or raised; inside the window
\* it is None and the saved value is the original one.
C10_LimitRestored ==
    /\ pc \notin LimitWindow => maxPixels = limit0
    /\ pc \in LimitWindow => (maxPixels = None /\ savedMax = limit0)

\* a call that failed while decoding, after the limit had been lifted
C10_Witness ==
    /\ op = "svg"
    /\ pc = "done"
    /\ exc.type = "UnidentifiedImageError"
    /\ limit0 = "PIL_DEFAULT"
    /\ maxPixels = "PIL_DEFAULT"

====
